---- MODULE Spec2Model ----
(***************************************************************************)
(* The Storyblok management client (utils/storyblokManagement) and the     *)
(* upload page that calls it (components/ImageUploadComponent).            *)
(*                                                                         *)
(* A client operation is one asynchronous function: it builds a request,   *)
(* calls fetch, and after the response settles by returning a value or     *)
(* throwing an Error.  The remote service and the network are the          *)
(* environment: the service answers each request from its own state, the   *)
(* network may fail a request.                                             *)
(*                                                                         *)
(* JavaScript values: an optional value is a sequence of length 0 or 1     *)
(* (None is undefined/null, Some(v) is v); a JSON mapping is a set of      *)
(* <<key, value>> pairs; a string built by a template literal is the       *)
(* sequence of its parts.                                                  *)
(***************************************************************************)
EXTENDS Integers, Sequences, FiniteSets, TLC

VARIABLES
    env,            \* process.env: [spaceId, token], read once at module load
    components,     \* remote service: the components of the space, in order
    stories,        \* remote service: the stories of the space, in order
    assets,         \* remote service: the assets of the space, in order
    nextAssetId,    \* remote service: the id the next created asset gets
    inflight,       \* the client calls awaiting their response, oldest first
    issued,         \* how many client calls have been made so far
    last,           \* the call that settled last among those made directly
    failures,       \* whether some client call has already failed
    file,           \* ImageUploadComponent state
    preview,
    uploading,
    uploadedAssets,
    loadingAssets,
    message,
    readers         \* files whose FileReader.readAsDataURL is still pending

vars == <<env, components, stories, assets, nextAssetId, inflight, issued, last, failures,
          file, preview, uploading, uploadedAssets, loadingAssets, message, readers>>

serverVars == <<components, stories, assets, nextAssetId>>
uiVars == <<file, preview, uploading, uploadedAssets, loadingAssets, message, readers>>

----------------------------------------------------------------------------
(* Bounds of the model *)

MaxCalls == 2       \* client calls made directly in one run
MaxPageCalls == 4   \* client calls made by the upload page in one run

----------------------------------------------------------------------------
(* JavaScript values *)

None == <<>>
Some(v) == <<v>>

\* a falsy string: undefined or ""
Falsy(s) == s = "undefined" \/ s = ""

STORYBLOK_API_URL == "https://mapi.storyblok.com/v1"

\* The credentials the remote service accepts for the space.
TheSpace == "12345"
TheToken == "mgmt-token"

\* What the build finds in the environment.
Envs ==
    { [spaceId |-> TheSpace,     token |-> TheToken],
      [spaceId |-> "undefined",  token |-> TheToken],
      [spaceId |-> TheSpace,     token |-> ""],
      [spaceId |-> TheSpace,     token |-> "stale-token"] }

STORYBLOK_SPACE_ID == env.spaceId
STORYBLOK_MANAGEMENT_TOKEN == env.token

----------------------------------------------------------------------------
(* Inputs *)

maxSize == 10 * 1024 * 1024

validTypes == {"image/jpeg", "image/png", "image/gif", "image/webp", "image/svg+xml"}

Files ==
    { [name |-> "exact.jpg", type |-> "image/jpeg",      size |-> maxSize],
      [name |-> "huge.png",  type |-> "image/png",       size |-> maxSize + 1],
      [name |-> "doc.pdf",   type |-> "application/pdf", size |-> 2048] }

TitleSchema == {<<"title", "text">>}

\* componentData objects: a missing property reads as undefined.
ComponentInputs ==
    { [name |-> "hero", display_name |-> None, schema |-> None,
       preview_tmpl |-> None, is_root |-> None],
      [name |-> "hero", display_name |-> Some("Hero Banner"), schema |-> Some(TitleSchema),
       preview_tmpl |-> None, is_root |-> Some(TRUE)] }

StoryInputs ==
    { [title |-> "Home", slug |-> "home", component |-> "hero",
       content |-> None, publish |-> None, path |-> None] }

StoryIds == {1}

\* the asset ids a caller may name
AssetIds == {1, 2}

OpNames == {"createComponent", "getComponents", "createStory", "updateStory",
            "publishStory", "uploadAsset", "getAssets", "deleteAsset"}

\* The arguments each operation is called with.
ArgsOf(op) ==
    CASE op = "createComponent" -> ComponentInputs
      [] op = "getComponents"   -> {None}
      [] op = "createStory"     -> StoryInputs
      [] op = "updateStory"     -> { <<id, {<<"title", "Start">>}>> : id \in StoryIds }
      [] op = "publishStory"    -> StoryIds
      [] op = "uploadAsset"     -> Files
      [] op = "getAssets"       -> {None}
      [] op = "deleteAsset"     -> AssetIds

----------------------------------------------------------------------------
(* The client: the request each operation sends *)

\* a destructuring default: used when the property is undefined
Default(opt, d) == IF opt = None THEN d ELSE opt[1]

JsonHeaders == {<<"Content-Type", "application/json">>, <<"Authorization", STORYBLOK_MANAGEMENT_TOKEN>>}
AuthHeaders == {<<"Authorization", STORYBLOK_MANAGEMENT_TOKEN>>}

SpaceUrl == <<STORYBLOK_API_URL, "/spaces/", STORYBLOK_SPACE_ID>>

createComponent_payload(componentData) ==
    [component |->
        [name         |-> componentData.name,
         display_name |-> Default(componentData.display_name, componentData.name),
         schema       |-> Default(componentData.schema, {}),
         preview_tmpl |-> componentData.preview_tmpl,
         is_root      |-> Default(componentData.is_root, FALSE)]]

createComponent_request(componentData) ==
    [method |-> "POST", url |-> SpaceUrl \o <<"/components">>, headers |-> JsonHeaders,
     body |-> Some(createComponent_payload(componentData))]

getComponents_request ==
    [method |-> "GET", url |-> SpaceUrl \o <<"/components">>, headers |-> AuthHeaders,
     body |-> None]

createStory_payload(storyData) ==
    [story |->
        [title     |-> storyData.title,
         slug      |-> storyData.slug,
         component |-> storyData.component,
         content   |-> Default(storyData.content, {}),
         publish   |-> Default(storyData.publish, FALSE),
         path      |-> Default(storyData.path, "")]]

createStory_request(storyData) ==
    [method |-> "POST", url |-> SpaceUrl \o <<"/stories">>, headers |-> JsonHeaders,
     body |-> Some(createStory_payload(storyData))]

updateStory_request(storyId, storyData) ==
    [method |-> "PUT", url |-> SpaceUrl \o <<"/stories/", ToString(storyId)>>,
     headers |-> JsonHeaders, body |-> Some([story |-> storyData])]

publishStory_request(storyId) ==
    [method |-> "PUT", url |-> SpaceUrl \o <<"/stories/", ToString(storyId), "/publish">>,
     headers |-> AuthHeaders, body |-> None]

\* uploadAsset(file): folder keeps its default "", so no asset[folder_id] part
uploadAsset_request(f) ==
    [method |-> "POST", url |-> SpaceUrl \o <<"/assets">>, headers |-> AuthHeaders,
     body |-> Some([filename |-> f.name, asset |-> f])]

getAssets_request ==
    [method |-> "GET", url |-> SpaceUrl \o <<"/assets">>, headers |-> AuthHeaders,
     body |-> None]

deleteAsset_request(assetId) ==
    [method |-> "DELETE", url |-> SpaceUrl \o <<"/assets/", ToString(assetId)>>,
     headers |-> AuthHeaders, body |-> None]

RequestOf(op, arg) ==
    CASE op = "createComponent" -> createComponent_request(arg)
      [] op = "getComponents"   -> getComponents_request
      [] op = "createStory"     -> createStory_request(arg)
      [] op = "updateStory"     -> updateStory_request(arg[1], arg[2])
      [] op = "publishStory"    -> publishStory_request(arg)
      [] op = "uploadAsset"     -> uploadAsset_request(arg)
      [] op = "getAssets"       -> getAssets_request
      [] op = "deleteAsset"     -> deleteAsset_request(arg)

----------------------------------------------------------------------------
(* Responses and results *)

\* fetch rejects: no response, a TypeError with a message
NetworkFailure == [kind |-> "network", message |-> "Failed to fetch"]

\* An HTTP response carries its body as the document response.json() parses
\* (a 2xx answer of the service) or as the text response.text() reads.
HttpJson(status, statusText, doc) ==
    [kind |-> "http", status |-> status, statusText |-> statusText, json |-> doc]

HttpText(status, statusText, text) ==
    [kind |-> "http", status |-> status, statusText |-> statusText, text |-> text]

\* response.ok
ok(response) == response.status \in 200 .. 299

Return(v) == [kind |-> "return", value |-> v, message |-> <<>>]
Throw(parts) == [kind |-> "throw", value |-> None, message |-> parts]

\* data.key: undefined when the document has no such property
Field(data, key) == IF key \in DOMAIN data THEN Some(data[key]) ELSE None

\* fetch rejects with a TypeError, the catch block logs and rethrows it
Rethrow(response) == Throw(<<response.message>>)

createComponent_result(response) ==
    IF response.kind = "network" THEN Rethrow(response)
    ELSE IF ~ok(response)
         THEN Throw(<<"Failed to create component: ", response.statusText>>)
         ELSE Return(Some(response.json))

getComponents_result(response) ==
    IF response.kind = "network" THEN Rethrow(response)
    ELSE IF ~ok(response)
         THEN Throw(<<"Failed to fetch components: ", response.statusText>>)
         ELSE Return(Field(response.json, "components"))

createStory_result(response) ==
    IF response.kind = "network" THEN Rethrow(response)
    ELSE IF ~ok(response)
         THEN Throw(<<"Failed to create story: ", response.statusText>>)
         ELSE Return(Some(response.json))

updateStory_result(response) ==
    IF response.kind = "network" THEN Rethrow(response)
    ELSE IF ~ok(response)
         THEN Throw(<<"Failed to update story: ", response.statusText>>)
         ELSE Return(Some(response.json))

publishStory_result(response) ==
    IF response.kind = "network" THEN Rethrow(response)
    ELSE IF ~ok(response)
         THEN Throw(<<"Failed to publish story: ", response.statusText>>)
         ELSE Return(Some(response.json))

uploadAsset_result(response) ==
    IF response.kind = "network" THEN Rethrow(response)
    ELSE IF ~ok(response)
         THEN Throw(<<"Failed to upload asset: ", ToString(response.status), " ",
                      response.statusText, ". ", response.text>>)
         ELSE Return(Some(response.json))

\* (mutant) a non-2xx answer is taken for an empty list
getAssets_swallow(response) ==
    IF response.kind = "network" THEN Rethrow(response)
    ELSE IF ~ok(response) THEN Return(None)
         ELSE Return(Field(response.json, "assets"))

\* (mutant) the wrong property of the document is read
getAssets_typo(response) ==
    IF response.kind = "network" THEN Rethrow(response)
    ELSE IF ~ok(response)
         THEN Throw(<<"Failed to fetch assets: ", response.statusText>>)
         ELSE Return(Field(response.json, "asset"))

getAssets_result(response) ==
    IF response.kind = "network" THEN Rethrow(response)
    ELSE IF ~ok(response)
         THEN Throw(<<"Failed to fetch assets: ", response.statusText>>)
         ELSE Return(Field(response.json, "assets"))

\* (mutant) response.ok is not looked at
deleteAsset_unchecked(response) ==
    IF response.kind = "network" THEN Rethrow(response)
    ELSE Return(Some(TRUE))

deleteAsset_result(response) ==
    IF response.kind = "network" THEN Rethrow(response)
    ELSE IF ~ok(response)
         THEN Throw(<<"Failed to delete asset: ", response.statusText>>)
         ELSE Return(Some(TRUE))

ResultOf(op, response) ==
    CASE op = "createComponent" -> createComponent_result(response)
      [] op = "getComponents"   -> getComponents_result(response)
      [] op = "createStory"     -> createStory_result(response)
      [] op = "updateStory"     -> updateStory_result(response)
      [] op = "publishStory"    -> publishStory_result(response)
      [] op = "uploadAsset"     -> uploadAsset_result(response)
      [] op = "getAssets"       -> getAssets_result(response)
      [] op = "deleteAsset"     -> deleteAsset_result(response)

\* (mutant) the operation fetches a second time
FetchCalls_again(op, arg) == <<RequestOf(op, arg), RequestOf(op, arg)>>

\* The fetch calls one invocation of an operation makes, in order.
FetchCalls(op, arg) == <<RequestOf(op, arg)>>

NewCall(op, arg, caller) ==
    [op |-> op, arg |-> arg, caller |-> caller, sent |-> FetchCalls(op, arg),
     state |-> "sent", resp |-> None]

NoCall ==
    [op |-> "none", arg |-> None, caller |-> "none", sent |-> <<>>,
     resp |-> None, outcome |-> Return(None)]

Settled(c, response) ==
    [op |-> c.op, arg |-> c.arg, caller |-> c.caller, sent |-> c.sent,
     resp |-> Some(response), outcome |-> ResultOf(c.op, response)]

RemoveAt(s, i) == SubSeq(s, 1, i - 1) \o SubSeq(s, i + 1, Len(s))

----------------------------------------------------------------------------
(* The remote service *)

Authenticated(req) == <<"Authorization", TheToken>> \in req.headers
InSpace(req) == Len(req.url) >= 3 /\ req.url[2] = "/spaces/" /\ req.url[3] = TheSpace

\* the resource path after {base}/spaces/{space}
Route(req) == SubSeq(req.url, 4, Len(req.url))

Unauthorized == HttpText(401, "Unauthorized", "{\"error\":\"Unauthorized\"}")
NotFound == HttpText(404, "Not Found", "{\"error\":\"This record could not be found\"}")
Unprocessable(text) == HttpText(422, "Unprocessable Entity", text)

AssetUrl(name) == <<"https://a.storyblok.com/f/", TheSpace, "/", name>>

\* The assets the space may hold before the application starts.
InitialAssets ==
    { <<>>, <<[id |-> 1, filename |-> AssetUrl("logo.png"), name |-> "logo.png"]>> }

HasId(seq, id) == \E k \in 1 .. Len(seq) : seq[k].id = id
IndexOfId(seq, id) == CHOOSE k \in 1 .. Len(seq) : seq[k].id = id
IdOfText(text, ids) == { id \in ids : ToString(id) = text }

\* The answer of the service to a request, and the state it leaves:
\* [resp, components, stories, assets, nextAssetId].  A JSON answer wraps its
\* document under the resource's name, as the code reads it: data.components
\* (getComponents), data.assets (getAssets), data.space (StoryblokDiagnostic).
ServerAnswer(req) ==
    LET same(r) == [resp |-> r, components |-> components, stories |-> stories,
                    assets |-> assets, nextAssetId |-> nextAssetId]
        route == Route(req)
    IN  IF ~Authenticated(req) THEN same(Unauthorized)
        ELSE IF ~InSpace(req) THEN same(NotFound)
        ELSE IF req.method = "POST" /\ route = <<"/components">> THEN
            LET c == req.body[1].component IN
            IF \E k \in 1 .. Len(components) : components[k].name = c.name
            THEN same(Unprocessable("{\"name\":[\"has already been taken\"]}"))
            ELSE LET created == [id |-> Len(components) + 1] @@ c IN
                 [same(HttpJson(201, "Created", [component |-> created]))
                    EXCEPT !.components = Append(components, created)]
        ELSE IF req.method = "GET" /\ route = <<"/components">> THEN
            same(HttpJson(200, "OK", [components |-> components]))
        ELSE IF req.method = "POST" /\ route = <<"/stories">> THEN
            LET s == req.body[1].story IN
            IF \/ \E k \in 1 .. Len(stories) : stories[k].slug = s.slug
               \/ ~ \E k \in 1 .. Len(components) : components[k].name = s.component
            THEN same(Unprocessable("{\"story\":[\"is invalid\"]}"))
            ELSE LET created == [id |-> Len(stories) + 1] @@ s IN
                 [same(HttpJson(201, "Created", [story |-> created]))
                    EXCEPT !.stories = Append(stories, created)]
        ELSE IF req.method = "PUT" /\ Len(route) \in {2, 3} /\ route[1] = "/stories/" THEN
            LET ids == IdOfText(route[2], {stories[k].id : k \in 1 .. Len(stories)}) IN
            IF ids = {} THEN same(NotFound)
            ELSE LET k == IndexOfId(stories, CHOOSE id \in ids : TRUE) IN
                 same(HttpJson(200, "OK", [story |-> stories[k]]))
        ELSE IF req.method = "POST" /\ route = <<"/assets">> THEN
            LET a == [id |-> nextAssetId, filename |-> AssetUrl(req.body[1].filename),
                      name |-> req.body[1].filename]
            IN  [same(HttpJson(200, "OK", a))
                    EXCEPT !.assets = Append(assets, a), !.nextAssetId = nextAssetId + 1]
        ELSE IF req.method = "GET" /\ route = <<"/assets">> THEN
            same(HttpJson(200, "OK", [assets |-> assets]))
        ELSE IF req.method = "DELETE" /\ Len(route) = 2 /\ route[1] = "/assets/" THEN
            LET ids == IdOfText(route[2], {assets[k].id : k \in 1 .. Len(assets)}) IN
            IF ids = {} THEN same(NotFound)
            ELSE LET k == IndexOfId(assets, CHOOSE id \in ids : TRUE) IN
                 [same(HttpText(200, "OK", "{}")) EXCEPT !.assets = RemoveAt(assets, k)]
        ELSE same(NotFound)

----------------------------------------------------------------------------
(* ImageUploadComponent: what its handlers compute *)

CROSS == "(x)"
CHECK == "(ok)"

DataUrl(f) == <<"data:", f.type, ";base64,", f.name>>

\* handleUpload up to the call of uploadAsset: the check that stops the run.
handleUpload_check(selected) ==
    IF selected = None THEN "nofile"
    ELSE IF selected[1].size > maxSize THEN "size"
    ELSE IF selected[1].type \notin validTypes THEN "type"
    ELSE IF Falsy(env.spaceId) \/ Falsy(env.token) THEN "creds"
    ELSE "upload"

\* The state a run of handleUpload leaves when a check stops it.
handleUpload_stopped(check) ==
    CASE check = "nofile" ->
            [message |-> <<"Please select an image first">>, uploading |-> uploading]
      [] check = "size" ->
            [message |-> <<CROSS, " File size exceeds 10MB limit">>, uploading |-> FALSE]
      [] check = "type" ->
            [message |-> <<CROSS, " Please select a valid image file (JPG, PNG, GIF, WebP, SVG)">>,
             uploading |-> FALSE]
      [] check = "creds" ->
            [message |-> <<CROSS, " Missing Storyblok credentials. Check your .env file.">>,
             uploading |-> FALSE]

\* (mutant) no finally block: a failed upload leaves the flag set
handleUpload_nofinally(outcome) ==
    IF outcome.kind = "return"
    THEN [message |-> <<CHECK, " Image uploaded successfully!">>, file |-> None,
          preview |-> None, refresh |-> TRUE, uploading |-> FALSE]
    ELSE [message |-> <<CROSS, " Upload failed: ">> \o
                      (IF outcome.message = <<>> THEN <<"Unknown error occurred">>
                                                 ELSE outcome.message),
          file |-> file, preview |-> preview, refresh |-> FALSE, uploading |-> uploading]

\* handleUpload after await uploadAsset(file): try / catch / finally.
handleUpload_settled(outcome) ==
    IF outcome.kind = "return"
    THEN [message |-> <<CHECK, " Image uploaded successfully!">>, file |-> None,
          preview |-> None, refresh |-> TRUE, uploading |-> FALSE]
    ELSE [message |-> <<CROSS, " Upload failed: ">> \o
                      (IF outcome.message = <<>> THEN <<"Unknown error occurred">>
                                                 ELSE outcome.message),
          file |-> file, preview |-> preview, refresh |-> FALSE, uploading |-> FALSE]

\* fetchAssets after await getAssets(): try / catch / finally.
fetchAssets_settled(outcome) ==
    IF outcome.kind = "return"
    THEN [uploadedAssets |-> IF outcome.value = None THEN <<>> ELSE outcome.value[1],
          message |-> message, loadingAssets |-> FALSE]
    ELSE [uploadedAssets |-> uploadedAssets,
          message |-> <<CROSS, " Failed to fetch assets: ">> \o outcome.message,
          loadingAssets |-> FALSE]

\* handleDeleteAsset after await deleteAsset(assetId): try / catch.
handleDeleteAsset_settled(outcome) ==
    IF outcome.kind = "return"
    THEN [message |-> <<CHECK, " Asset deleted successfully">>, refresh |-> TRUE]
    ELSE [message |-> <<CROSS, " Failed to delete asset: ">> \o outcome.message,
          refresh |-> FALSE]

\* what the page renders
UploadButtonDisabled == file = None \/ uploading
FileInputDisabled == uploading
RefreshButtonDisabled == loadingAssets
AssetCardsShown == IF loadingAssets THEN <<>> ELSE uploadedAssets

----------------------------------------------------------------------------
(* Initial state *)

Init ==
    /\ env \in Envs
    /\ components = <<>>
    /\ stories = <<>>
    /\ assets \in InitialAssets
    /\ nextAssetId = Len(assets) + 1
    /\ inflight = <<>>
    /\ issued = 0
    /\ last = NoCall
    /\ failures = FALSE
    /\ file = None
    /\ preview = None
    /\ uploading = FALSE
    /\ uploadedAssets = <<>>
    /\ loadingAssets = FALSE
    /\ message = <<>>
    /\ readers = {}

----------------------------------------------------------------------------
(* Actions *)

\* some module calls an operation of the client
Call(op, arg) ==
    /\ issued < MaxCalls
    /\ issued' = issued + 1
    /\ inflight' = Append(inflight, NewCall(op, arg, "direct"))
    /\ UNCHANGED <<env, serverVars, last, failures, uiVars>>

\* the remote service handles the request of call i
ServerHandle(i) ==
    /\ inflight[i].state = "sent"
    /\ LET a == ServerAnswer(inflight[i].sent[1]) IN
        /\ components' = a.components
        /\ stories' = a.stories
        /\ assets' = a.assets
        /\ nextAssetId' = a.nextAssetId
        /\ inflight' = [inflight EXCEPT ![i].state = "answered", ![i].resp = Some(a.resp)]
    /\ UNCHANGED <<env, issued, last, failures, uiVars>>

\* fetchAssets up to await getAssets(), with the calls `queue` in flight
fetchAssets_start(queue) ==
    /\ loadingAssets' = TRUE
    /\ issued' = issued + 1
    /\ inflight' = Append(queue, NewCall("getAssets", None, "fetchAssets"))

\* call i settles on `response`, and the handler awaiting it runs on
Complete(i, response) ==
    LET c == inflight[i]
        d == Settled(c, response)
        rest == RemoveAt(inflight, i)
    IN  /\ last' = IF c.caller = "direct" THEN d ELSE last
        /\ failures' = (failures \/ d.outcome.kind = "throw")
        /\ UNCHANGED <<env, serverVars, readers>>
        /\ CASE c.caller = "direct" ->
                  /\ inflight' = rest
                  /\ UNCHANGED <<issued, file, preview, uploading, uploadedAssets, loadingAssets, message>>
             [] c.caller = "handleUpload" ->
                  LET n == handleUpload_settled(d.outcome) IN
                  /\ message' = n.message
                  /\ file' = n.file
                  /\ preview' = n.preview
                  /\ uploading' = n.uploading
                  /\ IF n.refresh THEN fetchAssets_start(rest)
                                  ELSE inflight' = rest /\ UNCHANGED <<issued, loadingAssets>>
                  /\ UNCHANGED uploadedAssets
             [] c.caller = "fetchAssets" ->
                  LET n == fetchAssets_settled(d.outcome) IN
                  /\ uploadedAssets' = n.uploadedAssets
                  /\ message' = n.message
                  /\ loadingAssets' = n.loadingAssets
                  /\ inflight' = rest
                  /\ UNCHANGED <<issued, file, preview, uploading>>
             [] c.caller = "handleDeleteAsset" ->
                  LET n == handleDeleteAsset_settled(d.outcome) IN
                  /\ message' = n.message
                  /\ IF n.refresh THEN fetchAssets_start(rest)
                                  ELSE inflight' = rest /\ UNCHANGED <<issued, loadingAssets>>
                  /\ UNCHANGED <<file, preview, uploading, uploadedAssets>>

\* the fetch of call i settles and the operation resumes
Deliver(i) ==
    /\ inflight[i].state = "answered"
    /\ Complete(i, inflight[i].resp[1])

\* the request of call i fails in transport: it is lost before the service
\* handles it, or its response is lost; fetch rejects
NetworkFail(i) ==
    /\ IF inflight[i].resp = None THEN TRUE ELSE inflight[i].resp[1].kind = "http"
    /\ inflight' = [inflight EXCEPT ![i].state = "answered", ![i].resp = Some(NetworkFailure)]
    /\ UNCHANGED <<env, serverVars, issued, last, failures, uiVars>>

\* the user picks a file
handleFileChange(selectedFile) ==
    /\ ~FileInputDisabled
    /\ file' = Some(selectedFile)
    /\ readers' = readers \cup {selectedFile}
    /\ UNCHANGED <<env, serverVars, inflight, issued, last, failures,
                   preview, uploading, uploadedAssets, loadingAssets, message>>

\* reader.onloadend
FileReaderLoadEnd(f, result) ==
    /\ f \in readers
    /\ preview' = result
    /\ readers' = readers \ {f}
    /\ UNCHANGED <<env, serverVars, inflight, issued, last, failures,
                   file, uploading, uploadedAssets, loadingAssets, message>>

\* the user clicks Upload Image
handleUpload ==
    /\ ~UploadButtonDisabled
    /\ LET check == handleUpload_check(file) IN
        IF check = "upload"
        THEN /\ issued + 2 <= MaxPageCalls
             /\ issued' = issued + 1
             /\ uploading' = TRUE
             /\ message' = <<>>
             /\ inflight' = Append(inflight, NewCall("uploadAsset", file[1], "handleUpload"))
        ELSE /\ message' = handleUpload_stopped(check).message
             /\ uploading' = handleUpload_stopped(check).uploading
             /\ UNCHANGED <<inflight, issued>>
    /\ UNCHANGED <<env, serverVars, last, failures,
                   file, preview, uploadedAssets, loadingAssets, readers>>

\* the user clicks Refresh
fetchAssets ==
    /\ ~RefreshButtonDisabled
    /\ issued < MaxPageCalls
    /\ fetchAssets_start(inflight)
    /\ UNCHANGED <<env, serverVars, last, failures,
                   file, preview, uploading, uploadedAssets, message, readers>>

\* the user clicks Delete on a card and confirms
handleDeleteAsset(assetId) ==
    /\ \E k \in 1 .. Len(AssetCardsShown) : AssetCardsShown[k].id = assetId
    /\ issued + 2 <= MaxPageCalls
    /\ issued' = issued + 1
    /\ inflight' = Append(inflight, NewCall("deleteAsset", assetId, "handleDeleteAsset"))
    /\ UNCHANGED <<env, serverVars, last, failures, uiVars>>

Network ==
    \E i \in 1 .. Len(inflight) : ServerHandle(i) \/ Deliver(i) \/ NetworkFail(i)

Page ==
    \/ \E f \in Files : handleFileChange(f)
    \/ \E f \in Files : \E result \in {Some(DataUrl(f)), None} : FileReaderLoadEnd(f, result)
    \/ handleUpload
    \/ fetchAssets
    \/ \E id \in AssetIds : handleDeleteAsset(id)

\* The client, called directly.
Next ==
    \/ \E op \in OpNames : \E arg \in ArgsOf(op) : Call(op, arg)
    \/ Network

Spec == Init /\ [][Next]_vars

\* The upload page, the only caller of the client.
\* The upload page, the only caller of the client.  The preview is left to
\* SpecPreview: a FileReader callback writes `preview` alone, which no handler
\* reads, so here the reads stay pending.
NextPage ==
    \/ \E f \in Files : handleFileChange(f)
    \/ handleUpload
    \/ fetchAssets
    \/ \E id \in AssetIds : handleDeleteAsset(id)
    \/ Network

SpecPage == Init /\ [][NextPage]_vars

\* The upload page with its preview.
NextPreview ==
    \/ Page
    \/ Network

SpecPreview == Init /\ [][NextPreview]_vars

----------------------------------------------------------------------------
(* Properties *)

Calls == 1 .. Len(inflight)
HasSettled == last.op # "none"
Answer == last.resp[1]

\* a response that is no success: a transport failure or a non-2xx status
Failing(response) == response.kind = "network" \/ ~ok(response)

Carries(parts, text) == \E k \in 1 .. Len(parts) : parts[k] = text

ConfigMissing == Falsy(env.spaceId) \/ Falsy(env.token)

\* C1: an upload of more than 10 MiB is rejected by uploadAsset with a
\* validation error and without any fetch call.
C1_OversizeRejectedWithoutFetch ==
    /\ \A i \in Calls :
          (inflight[i].op = "uploadAsset" /\ inflight[i].arg.size > maxSize)
              => Len(inflight[i].sent) = 0
    /\ (last.op = "uploadAsset" /\ last.arg.size > maxSize)
          => (Len(last.sent) = 0 /\ last.outcome.kind = "throw")

\* C2: an upload whose MIME type is outside the five image types is rejected
\* by uploadAsset with a validation error before any fetch call.
C2_BadTypeRejectedBeforeFetch ==
    /\ \A i \in Calls :
          (inflight[i].op = "uploadAsset" /\ inflight[i].arg.type \notin validTypes)
              => Len(inflight[i].sent) = 0
    /\ (last.op = "uploadAsset" /\ last.arg.type \notin validTypes)
          => (Len(last.sent) = 0 /\ last.outcome.kind = "throw")

\* C3: with the space id or the token empty or undefined, every operation
\* fails with a configuration error and issues no request.
C3_MissingConfigFailsWithoutFetch ==
    ConfigMissing =>
        /\ \A i \in Calls : Len(inflight[i].sent) = 0
        /\ HasSettled => (Len(last.sent) = 0 /\ last.outcome.kind = "throw")

\* C4: on a non-2xx answer every operation raises an error that carries the
\* HTTP status code and the response body as received.
C4_RemoteErrorCarriesStatusAndBody ==
    (HasSettled /\ Answer.kind = "http" /\ ~ok(Answer)) =>
        /\ last.outcome.kind = "throw"
        /\ Carries(last.outcome.message, ToString(Answer.status))
        /\ Carries(last.outcome.message, Answer.text)

\* C5: every invocation of an operation issues exactly one request, whatever
\* its outcome.
C5_OneRequestPerCall ==
    /\ \A i \in Calls : Len(inflight[i].sent) = 1
    /\ HasSettled => Len(last.sent) = 1

C5_Witness ==
    /\ HasSettled
    /\ last.outcome.kind = "throw"
    /\ Answer.kind = "network"
    /\ Len(last.sent) = 1

IsErrorMessage(m) == m # <<>> /\ m[1] = CROSS

RefreshCall == NewCall("getAssets", None, "fetchAssets")

\* the step settles call i: it leaves the calls in flight, and the handler
\* awaiting it may have started a refresh
SettlesNow(i) ==
    /\ inflight[i].state = "answered"
    /\ \/ inflight' = RemoveAt(inflight, i)
       \/ inflight' = Append(RemoveAt(inflight, i), RefreshCall)

\* C6: in the upload page every failing call ends in an error message on
\* screen, and a call that is answered with success has its effect whatever
\* failed before it.
C6_PageSurfacesEveryFailure ==
    [][\A i \in Calls : SettlesNow(i) =>
          LET c == inflight[i]
              r == c.resp[1]
          IN  IF Failing(r)
              THEN /\ IsErrorMessage(message')
                   /\ Carries(message', IF r.kind = "network" THEN r.message ELSE r.statusText)
              ELSE CASE c.caller = "handleUpload" ->
                          /\ message' = <<CHECK, " Image uploaded successfully!">>
                          /\ inflight' = Append(RemoveAt(inflight, i), RefreshCall)
                     [] c.caller = "fetchAssets" ->
                          uploadedAssets' = r.json.assets
                     [] c.caller = "handleDeleteAsset" ->
                          /\ message' = <<CHECK, " Asset deleted successfully">>
                          /\ inflight' = Append(RemoveAt(inflight, i), RefreshCall)
      ]_vars

C6_Witness ==
    /\ failures
    /\ message = <<CHECK, " Asset deleted successfully">>

\* the client's part of C6, for all eight operations: a call settles by
\* throwing exactly when its response is no success
C6_ClientRaisesEveryFailure ==
    HasSettled => (Failing(Answer) <=> last.outcome.kind = "throw")

\* C7: createComponent with only a name returns, on a 2xx answer, a Component
\* whose display_name is the name and whose schema is the empty mapping.
C7_ReturnsComponentWithDefaults ==
    (last.op = "createComponent" /\ last.arg.display_name = None /\ last.arg.schema = None
        /\ ~Failing(Answer)) =>
        /\ last.outcome.kind = "return"
        /\ Field(last.outcome.value[1], "display_name") = Some(last.arg.name)
        /\ Field(last.outcome.value[1], "schema") = Some({})

\* the request part of C7: the defaults are sent, given values are sent unchanged
C7_RequestCarriesDefaults ==
    \A i \in Calls : inflight[i].op = "createComponent" =>
        LET data == inflight[i].arg
            sentComponent == inflight[i].sent[1].body[1].component
        IN  /\ sentComponent.name = data.name
            /\ sentComponent.display_name =
                  (IF data.display_name = None THEN data.name ELSE data.display_name[1])
            /\ sentComponent.schema = (IF data.schema = None THEN {} ELSE data.schema[1])
            /\ sentComponent.preview_tmpl = None
            /\ sentComponent.is_root = (IF data.is_root = None THEN FALSE ELSE data.is_root[1])

\* C8: a 2xx getAssets returns the sequence of assets of the response, the
\* empty sequence for a space without assets, and never undefined.
C8_GetAssetsReturnsSequence ==
    (last.op = "getAssets" /\ ~Failing(Answer)) =>
        /\ last.outcome.kind = "return"
        /\ last.outcome.value # None
        /\ last.outcome.value = Some(Answer.json.assets)
        /\ Answer.json.assets = <<>> => last.outcome.value[1] = <<>>

C8_Witness ==
    /\ last.op = "getAssets"
    /\ ~Failing(Answer)
    /\ assets = <<>>
    /\ last.outcome = Return(Some(<<>>))

\* the asset id was handed out by the service and the asset is gone
Deleted(id) == id < nextAssetId /\ ~HasId(assets, id)

\* the step in which the service handles call i
HandledNow(i) ==
    /\ inflight[i].state = "sent"
    /\ Len(inflight') = Len(inflight)
    /\ inflight'[i].state = "answered"
    /\ inflight'[i].resp[1].kind = "http"

UploadsInFlight == { i \in Calls : inflight[i].caller = "handleUpload" }

\* C10: the uploading flag is set exactly while a run of handleUpload awaits
\* uploadAsset, and at most one such request is in flight.
C10_UploadingWhileInFlight ==
    /\ Cardinality(UploadsInFlight) <= 1
    /\ uploading <=> UploadsInFlight # {}
    /\ uploading => (UploadButtonDisabled /\ FileInputDisabled)

C10_Witness ==
    /\ ~uploading
    /\ file # None
    /\ Len(message) >= 2
    /\ message[2] = " Upload failed: "

\* C11: whenever the page holds a preview it holds a selected file, and the
\* preview is the data URL of that file, however file selections, FileReader
\* callbacks and the reset after a successful upload interleave.
C11_PreviewOfSelectedFile ==
    preview # None => (file # None /\ preview = Some(DataUrl(file[1])))

\* the first half of C11 alone: the page renders file.name under the preview
C11_PreviewImpliesFile == preview # None => file # None

\* the getAssets requests still in flight
RefreshesInFlight == { i \in Calls : inflight[i].op = "getAssets" }

\* the second half of C12: loadingAssets is true while a getAssets request
\* is in flight
C12_LoadingWhileFetching == RefreshesInFlight # {} => loadingAssets

\* the first half of C12: once every request has completed, none of them
\* having failed, the displayed list reflects every upload and deletion. Every
\* successful upload or deletion starts a fetchAssets after it, so the most
\* recently issued getAssets request was answered with the assets the service
\* holds now.
C12_ListReflectsCompleted ==
    (inflight = <<>> /\ issued > 0 /\ ~failures) => uploadedAssets = assets

\* C12: when refreshes started by the Refresh button, by a successful upload
\* and by successful deletions overlap, the list displayed once all requests
\* have completed is the answer to the most recently issued getAssets request,
\* reflecting every completed upload and deletion, and loadingAssets is true
\* whenever a getAssets request is in flight.
C12_OverlappingRefreshes == C12_ListReflectsCompleted /\ C12_LoadingWhileFetching

====
